---- MODULE Spec2Model ----
(***************************************************************************)
(* Model of boot.py: the touch-driven two-level menu (detect_swipe), the   *)
(* multitap keyboard of the search screen (handle_keyboard_touch) and the  *)
(* main loop that feeds one touch sample per iteration to both.            *)
(*                                                                         *)
(* Time is in milliseconds.  `uptime` is the real time elapsed since the   *)
(* main loop was entered; the millisecond counter read by                  *)
(* time.ticks_ms() is (ticks_base + uptime) modulo TICKS_PERIOD, its       *)
(* reference point being arbitrary.  The weather/crypto refresh and the    *)
(* drawing routines only touch the display and the fetched data; they are  *)
(* represented by the time an iteration takes.                             *)
(***************************************************************************)
EXTENDS Integers, Sequences, FiniteSets, TLC

\* ------------------------------------------------------------------ bounds
\* longest search text explored
MaxLen == 2
\* real time explored, in tenths of a second
MaxTenths == 21
\* time one loop iteration may take besides the swipe cooldown: the 100 ms
\* sleep, or that sleep plus drawing and network refresh
Delays == {100, 1000}

\* ---------------------------------------------------------------- constants
TICKS_PERIOD == 1073741824
\* a cooldown with a digit dropped
SWIPE_SLEEP_MS_short == 300 \div 10

SWIPE_SLEEP_MS == 300
MULTITAP_WINDOW_MS == 1000
NUM_MAIN == 5
V_THRESHOLD == 50
H_THRESHOLD == 40

MaxUptime == MaxTenths * 100

\* start values of the ticks_ms counter explored: far from its wrap, and
\* 1500 ms before it
TickBases == {0, TICKS_PERIOD - 1500}

\* Python's None for the integer-valued globals and for multitap_key
None == -1
NoKey == "None"

\* get_touch(): None is the sample with no touch points
NoTouch == [x |-> None, y |-> None, points |-> 0]

Sample(px, py) == [x |-> px, y |-> py, points |-> 1]

\* the contact samples explored: one per key cell 0, 1, 9, 10, 11, one in the
\* gap between two columns, one in the gap between two rows, one above the grid
TouchPoints ==
    { Sample(45, 65), Sample(120, 65), Sample(45, 185), Sample(120, 185),
      Sample(165, 185), Sample(85, 65), Sample(120, 85), Sample(120, 15) }

get_touch == TouchPoints \cup {NoTouch}

\* ------------------------------------------------------------- key tables
multitap_letters ==
    ("abc" :> <<"a", "b", "c">>) @@ ("def" :> <<"d", "e", "f">>) @@
    ("ghi" :> <<"g", "h", "i">>) @@ ("jkl" :> <<"j", "k", "l">>) @@
    ("mno" :> <<"m", "n", "o">>) @@ ("pqrs" :> <<"p", "q", "r", "s">>) @@
    ("tuv" :> <<"t", "u", "v">>) @@ ("wxyz" :> <<"w", "x", "y", "z">>) @@
    ("SPACE" :> <<" ">>)

multitap_letters_upper ==
    ("ABC" :> <<"A", "B", "C">>) @@ ("DEF" :> <<"D", "E", "F">>) @@
    ("GHI" :> <<"G", "H", "I">>) @@ ("JKL" :> <<"J", "K", "L">>) @@
    ("MNO" :> <<"M", "N", "O">>) @@ ("PQRS" :> <<"P", "Q", "R", "S">>) @@
    ("TUV" :> <<"T", "U", "V">>) @@ ("WXYZ" :> <<"W", "X", "Y", "Z">>) @@
    ("SPACE" :> <<" ">>)

multitap_numbers ==
    ("1" :> <<"1">>) @@ ("2" :> <<"2">>) @@ ("3" :> <<"3">>) @@
    ("4" :> <<"4">>) @@ ("5" :> <<"5">>) @@ ("6" :> <<"6">>) @@
    ("7" :> <<"7">>) @@ ("8" :> <<"8">>) @@ ("9" :> <<"9">>) @@
    ("0" :> <<"0">>) @@ ("." :> <<".">>) @@ ("@" :> <<"@">>)

\* the keys of each table in the order the literal lists them
InsertionOrder(mode) ==
    IF mode = "abc"
    THEN <<"abc", "def", "ghi", "jkl", "mno", "pqrs", "tuv", "wxyz", "SPACE">>
    ELSE IF mode = "ABC"
    THEN <<"ABC", "DEF", "GHI", "JKL", "MNO", "PQRS", "TUV", "WXYZ", "SPACE">>
    ELSE <<"1", "2", "3", "4", "5", "6", "7", "8", "9", "0", ".", "@">>

Reverse(s) == [i \in 1..Len(s) |-> s[Len(s) + 1 - i]]

\* iteration orders of a dict explored: MicroPython does not promise the
\* insertion order, the order is fixed for a given build
DictOrders == {"insertion", "reversed"}

VARIABLES
    touch_enabled,   \* the touch controller was constructed
    dict_order,      \* the iteration order of the key tables in this build
    ticks_base,      \* value of the ticks_ms counter when the loop starts
    uptime,          \* real ms since the loop started = start of next iteration
    main_menu, sub_menu,
    last_touch_x, last_touch_y,
    search_text, keyboard_mode,
    multitap_key, multitap_count, multitap_time,
    last_main, last_sub,
    touch_data,      \* the sample of the latest iteration
    kb_result,       \* what handle_keyboard_touch returned in it, if called
    swiped,          \* detect_swipe classified a swipe in it
    prev_main, prev_sub, \* the menu position when the latest iteration began
    press_time,      \* uptime of the latest assignment to multitap_time, or None
    tied,            \* the latest iteration found |delta_x| = |delta_y|, both
                     \* above the two swipe thresholds
    hold             \* the run of consecutive iterations, up to the latest, that
                     \* called handle_keyboard_touch for one same cell, each tap
                     \* on a character cell less than 1000 ms after the one
                     \* before: the cell, the length n of the run, the length of
                     \* search_text before it, and whether the cell's cluster
                     \* was other than multitap_key then

vars == << touch_enabled, dict_order, ticks_base, uptime, main_menu, sub_menu,
           last_touch_x, last_touch_y, search_text, keyboard_mode,
           multitap_key, multitap_count, multitap_time, last_main, last_sub,
           touch_data, kb_result, swiped, prev_main, prev_sub, press_time,
           tied, hold >>

NoHold == [cell |-> -1, n |-> 0, len |-> 0, fresh |-> FALSE]

\* ------------------------------------------------------------ pure helpers
abs(v) == IF v < 0 THEN -v ELSE v

\* time.ticks_ms() read u ms after the loop started
ticks_ms(u) == (ticks_base + u) % TICKS_PERIOD

\* every menu but Weather reported as having no submenu... and Weather too
get_max_submenus_none(menu) == 1

get_max_submenus(menu) == IF menu = 1 THEN 2 ELSE 1

\* the keys table selected by keyboard_mode
keys(mode) ==
    IF mode = "abc" THEN multitap_letters
    ELSE IF mode = "ABC" THEN multitap_letters_upper
    ELSE multitap_numbers

\* key_list = list(keys.keys())
key_list(mode) ==
    IF dict_order = "insertion" THEN InsertionOrder(mode)
    ELSE Reverse(InsertionOrder(mode))

\* row band of y, -1 outside all bands
key_row(y) ==
    IF 50 <= y /\ y <= 80 THEN 0
    ELSE IF 90 <= y /\ y <= 120 THEN 1
    ELSE IF 130 <= y /\ y <= 160 THEN 2
    ELSE IF 170 <= y /\ y <= 200 THEN 3
    ELSE -1

\* the column bands without the gaps between them
key_col_nogap(x) ==
    IF 20 <= x /\ x < 90 THEN 0
    ELSE IF 90 <= x /\ x < 160 THEN 1
    ELSE IF 160 <= x /\ x <= 220 THEN 2
    ELSE -1

\* column band of x, -1 outside all bands
key_col(x) ==
    IF 20 <= x /\ x <= 80 THEN 0
    ELSE IF 90 <= x /\ x <= 150 THEN 1
    ELSE IF 160 <= x /\ x <= 220 THEN 2
    ELSE -1

\* key_idx, or -1 when the tap is in no cell
key_idx(x, y) ==
    IF key_row(y) >= 0 /\ key_col(x) >= 0 THEN key_row(y) * 3 + key_col(x)
    ELSE -1

\* a toggle between the two letter modes only
toggle_mode_caps(mode) ==
    IF mode = "abc" THEN "ABC" ELSE "abc"

\* the mode after the Caps/Mode button
toggle_mode(mode) ==
    IF mode = "abc" THEN "ABC"
    ELSE IF mode = "ABC" THEN "123"
    ELSE "abc"

\* search_text[1:]
DropFirst(s) == SubSeq(s, 2, Len(s))

\* search_text[:-1]
DropLast(s) == SubSeq(s, 1, Len(s) - 1)

\* the test with a window of a tenth of a second
in_multitap_window_tenth(current_time, mt_time) ==
    (current_time - mt_time) < MULTITAP_WINDOW_MS \div 10

\* the test with the comparison turned around
in_multitap_window_inverted(current_time, mt_time) ==
    (current_time - mt_time) > MULTITAP_WINDOW_MS

\* the multitap test: the previous press is less than 1000 ms old
in_multitap_window(current_time, mt_time) ==
    (current_time - mt_time) < MULTITAP_WINDOW_MS

\* the step without the wrap-around
swipe_main_nowrap(menu, delta_y) ==
    IF delta_y > 0 THEN menu + 1 ELSE menu - 1

\* main_menu after a vertical swipe of delta_y
swipe_main(menu, delta_y) ==
    IF delta_y > 0 THEN (menu + 1) % NUM_MAIN ELSE (menu - 1) % NUM_MAIN

\* the step taken without asking whether the menu has submenus
swipe_sub_unguarded(menu, sub, delta_x) ==
    IF delta_x < 0 THEN (sub + 1) % 2 ELSE (sub - 1) % 2

\* sub_menu after a horizontal swipe of delta_x on main menu `menu`
swipe_sub(menu, sub, delta_x) ==
    LET max_subs == get_max_submenus(menu)
    IN  IF max_subs > 1
        THEN IF delta_x < 0 THEN (sub + 1) % max_subs ELSE (sub - 1) % max_subs
        ELSE sub

\* the vertical test with the threshold doubled
is_vertical_swipe_100(delta_x, delta_y) ==
    abs(delta_y) > 2 * V_THRESHOLD /\ abs(delta_y) > abs(delta_x)

is_vertical_swipe(delta_x, delta_y) ==
    abs(delta_y) > V_THRESHOLD /\ abs(delta_y) > abs(delta_x)

\* the horizontal test that does not ask the x axis to dominate
is_horizontal_swipe_any_dy(delta_x, delta_y) ==
    abs(delta_x) > H_THRESHOLD

is_horizontal_swipe(delta_x, delta_y) ==
    abs(delta_x) > H_THRESHOLD /\ abs(delta_x) > abs(delta_y)

\* ------------------------------------------------------------- operations
\* detect_swipe that returns on a missing sample without clearing the anchor
detect_swipe_stale_anchor(td) ==
    LET stay == [main_menu |-> main_menu, sub_menu |-> sub_menu, slept |-> 0]
    IN
    IF td.points = 0
    THEN stay @@ [last_touch_x |-> last_touch_x, last_touch_y |-> last_touch_y,
                  fired |-> FALSE]
    ELSE
      LET delta_x == td.x - last_touch_x
          delta_y == td.y - last_touch_y
      IN
      IF last_touch_x # None /\ last_touch_y # None
         /\ is_vertical_swipe(delta_x, delta_y)
      THEN [main_menu |-> swipe_main(main_menu, delta_y), sub_menu |-> 0,
            last_touch_x |-> None, last_touch_y |-> None,
            slept |-> SWIPE_SLEEP_MS, fired |-> TRUE]
      ELSE IF last_touch_x # None /\ last_touch_y # None
              /\ is_horizontal_swipe(delta_x, delta_y)
      THEN [main_menu |-> main_menu,
            sub_menu |-> swipe_sub(main_menu, sub_menu, delta_x),
            last_touch_x |-> None, last_touch_y |-> None,
            slept |-> SWIPE_SLEEP_MS, fired |-> TRUE]
      ELSE stay @@ [last_touch_x |-> td.x, last_touch_y |-> td.y,
                    fired |-> FALSE]

\* detect_swipe(touch_data): the globals it leaves behind, and the time it
\* slept
detect_swipe(td) ==
    LET stay == [main_menu |-> main_menu, sub_menu |-> sub_menu, slept |-> 0]
    IN
    IF td.points = 0
    THEN stay @@ [last_touch_x |-> None, last_touch_y |-> None, fired |-> FALSE]
    ELSE
      LET delta_x == td.x - last_touch_x
          delta_y == td.y - last_touch_y
      IN
      IF last_touch_x # None /\ last_touch_y # None
         /\ is_vertical_swipe(delta_x, delta_y)
      THEN [main_menu |-> swipe_main(main_menu, delta_y), sub_menu |-> 0,
            last_touch_x |-> None, last_touch_y |-> None,
            slept |-> SWIPE_SLEEP_MS, fired |-> TRUE]
      ELSE IF last_touch_x # None /\ last_touch_y # None
              /\ is_horizontal_swipe(delta_x, delta_y)
      THEN [main_menu |-> main_menu,
            sub_menu |-> swipe_sub(main_menu, sub_menu, delta_x),
            last_touch_x |-> None, last_touch_y |-> None,
            slept |-> SWIPE_SLEEP_MS, fired |-> TRUE]
      ELSE stay @@ [last_touch_x |-> td.x, last_touch_y |-> td.y,
                    fired |-> FALSE]

\* the keyboard globals as a record
kb_globals ==
    [search_text |-> search_text, keyboard_mode |-> keyboard_mode,
     multitap_key |-> multitap_key, multitap_count |-> multitap_count,
     multitap_time |-> multitap_time]

\* the handler whose mode toggle leaves multitap_key set
handle_keyboard_touch_toggle_keeps_key(x, y, current_time) ==
    LET kl  == key_list(keyboard_mode)
        idx == key_idx(x, y)
    IN
    IF idx = 9
    THEN [kb_globals EXCEPT
            !.search_text = IF Len(search_text) > 0 THEN DropLast(search_text)
                            ELSE search_text,
            !.multitap_key = NoKey] @@ [ret |-> "True"]
    ELSE IF idx = 10
    THEN [kb_globals EXCEPT
            !.keyboard_mode = toggle_mode(keyboard_mode)] @@ [ret |-> "True"]
    ELSE IF idx = 11
    THEN [kb_globals EXCEPT !.multitap_key = NoKey] @@ [ret |-> "True"]
    ELSE IF idx >= 0 /\ idx < Len(kl)
    THEN
      LET key_name == kl[idx + 1]
          cands    == keys(keyboard_mode)[key_name]
          cycle    == multitap_key = key_name
                      /\ in_multitap_window(current_time, multitap_time)
          count    == IF cycle THEN (multitap_count + 1) % Len(cands) ELSE 0
          text     == IF cycle /\ Len(search_text) > 0
                      THEN DropLast(search_text) ELSE search_text
      IN [search_text |-> Append(text, cands[count + 1]),
          keyboard_mode |-> keyboard_mode,
          multitap_key |-> key_name, multitap_count |-> count,
          multitap_time |-> current_time, ret |-> "True"]
    ELSE kb_globals @@ [ret |-> "False"]

\* the handler whose Backspace leaves multitap_key set
handle_keyboard_touch_backspace_keeps_key(x, y, current_time) ==
    LET kl  == key_list(keyboard_mode)
        idx == key_idx(x, y)
    IN
    IF idx = 9
    THEN [kb_globals EXCEPT
            !.search_text = IF Len(search_text) > 0 THEN DropLast(search_text)
                            ELSE search_text] @@ [ret |-> "True"]
    ELSE IF idx = 10
    THEN [kb_globals EXCEPT
            !.keyboard_mode = toggle_mode(keyboard_mode),
            !.multitap_key = NoKey] @@ [ret |-> "True"]
    ELSE IF idx = 11
    THEN [kb_globals EXCEPT !.multitap_key = NoKey] @@ [ret |-> "True"]
    ELSE IF idx >= 0 /\ idx < Len(kl)
    THEN
      LET key_name == kl[idx + 1]
          cands    == keys(keyboard_mode)[key_name]
          cycle    == multitap_key = key_name
                      /\ in_multitap_window(current_time, multitap_time)
          count    == IF cycle THEN (multitap_count + 1) % Len(cands) ELSE 0
          text     == IF cycle /\ Len(search_text) > 0
                      THEN DropLast(search_text) ELSE search_text
      IN [search_text |-> Append(text, cands[count + 1]),
          keyboard_mode |-> keyboard_mode,
          multitap_key |-> key_name, multitap_count |-> count,
          multitap_time |-> current_time, ret |-> "True"]
    ELSE kb_globals @@ [ret |-> "False"]

\* handle_keyboard_touch(x, y) called when ticks_ms() reads current_time: the
\* globals it leaves behind and its return value
handle_keyboard_touch(x, y, current_time) ==
    LET kl  == key_list(keyboard_mode)
        idx == key_idx(x, y)
    IN
    IF idx = 9
    THEN [kb_globals EXCEPT
            !.search_text = IF Len(search_text) > 0 THEN DropLast(search_text)
                            ELSE search_text,
            !.multitap_key = NoKey] @@ [ret |-> "True"]
    ELSE IF idx = 10
    THEN [kb_globals EXCEPT
            !.keyboard_mode = toggle_mode(keyboard_mode),
            !.multitap_key = NoKey] @@ [ret |-> "True"]
    ELSE IF idx = 11
    THEN [kb_globals EXCEPT !.multitap_key = NoKey] @@ [ret |-> "True"]
    ELSE IF idx >= 0 /\ idx < Len(kl)
    THEN
      LET key_name == kl[idx + 1]
          cands    == keys(keyboard_mode)[key_name]
          cycle    == multitap_key = key_name
                      /\ in_multitap_window(current_time, multitap_time)
          count    == IF cycle THEN (multitap_count + 1) % Len(cands) ELSE 0
          text     == IF cycle /\ Len(search_text) > 0
                      THEN DropLast(search_text) ELSE search_text
      IN [search_text |-> Append(text, cands[count + 1]),
          keyboard_mode |-> keyboard_mode,
          multitap_key |-> key_name, multitap_count |-> count,
          multitap_time |-> current_time, ret |-> "True"]
    ELSE kb_globals @@ [ret |-> "False"]

\* the middle of grid cell c as draw_search_screen lays the buttons out
CellCentre(c) == Sample(20 + 70 * (c % 3) + 30, 50 + 40 * (c \div 3) + 15)

\* what handle_keyboard_touch would leave behind for a tap in the middle of
\* cell c now
TapOn(c) ==
    handle_keyboard_touch(CellCentre(c).x, CellCentre(c).y, ticks_ms(uptime))

\* the hold after an iteration that starts on main menu `menu` and reads td
next_hold(menu, td) ==
    LET c == IF menu = 3 /\ td.points # 0 THEN key_idx(td.x, td.y) ELSE -1
    IN  IF c = -1 THEN NoHold
        ELSE IF hold.cell = c /\ (c >= 9 \/ uptime - press_time < 1000)
        THEN [hold EXCEPT !.n = @ + 1]
        ELSE [cell |-> c, n |-> 1, len |-> Len(search_text),
              fresh |-> c < 9 /\ key_list(keyboard_mode)[c + 1] # multitap_key]

\* the sample td lies as far from the anchor on one axis as on the other,
\* beyond both thresholds
is_tie(td) ==
    /\ td.points # 0 /\ last_touch_x # None /\ last_touch_y # None
    /\ abs(td.x - last_touch_x) = abs(td.y - last_touch_y)
    /\ abs(td.x - last_touch_x) > V_THRESHOLD

\* the iteration that hands the sample to the keyboard on every screen
Iteration_every_screen(td, d) ==
    LET kb == IF td.points # 0
              THEN handle_keyboard_touch(td.x, td.y, ticks_ms(uptime))
              ELSE kb_globals @@ [ret |-> "NotCalled"]
        sw == detect_swipe(td)
    IN
    /\ Len(kb.search_text) <= MaxLen
    /\ uptime + sw.slept + d <= MaxUptime
    /\ touch_data' = td
    /\ search_text' = kb.search_text
    /\ keyboard_mode' = kb.keyboard_mode
    /\ multitap_key' = kb.multitap_key
    /\ multitap_count' = kb.multitap_count
    /\ multitap_time' = kb.multitap_time
    /\ kb_result' = kb.ret
    /\ press_time' = IF kb.ret = "True" /\ kb.multitap_key # NoKey
                     THEN uptime ELSE press_time
    /\ main_menu' = sw.main_menu
    /\ sub_menu' = sw.sub_menu
    /\ last_touch_x' = sw.last_touch_x
    /\ last_touch_y' = sw.last_touch_y
    /\ swiped' = sw.fired
    /\ prev_main' = main_menu
    /\ prev_sub' = sub_menu
    /\ tied' = is_tie(td)
    /\ hold' = next_hold(main_menu, td)
    /\ IF sw.main_menu # last_main \/ sw.sub_menu # last_sub
       THEN last_main' = sw.main_menu /\ last_sub' = sw.sub_menu
       ELSE UNCHANGED << last_main, last_sub >>
    /\ uptime' = uptime + sw.slept + d
    /\ UNCHANGED << touch_enabled, dict_order, ticks_base >>

\* the iteration that runs detect_swipe before the keyboard test
Iteration_swipe_first(td, d) ==
    LET sw == detect_swipe(td)
        kb == IF sw.main_menu = 3 /\ td.points # 0
              THEN handle_keyboard_touch(td.x, td.y, ticks_ms(uptime))
              ELSE kb_globals @@ [ret |-> "NotCalled"]
    IN
    /\ Len(kb.search_text) <= MaxLen
    /\ uptime + sw.slept + d <= MaxUptime
    /\ touch_data' = td
    /\ search_text' = kb.search_text
    /\ keyboard_mode' = kb.keyboard_mode
    /\ multitap_key' = kb.multitap_key
    /\ multitap_count' = kb.multitap_count
    /\ multitap_time' = kb.multitap_time
    /\ kb_result' = kb.ret
    /\ press_time' = IF kb.ret = "True" /\ kb.multitap_key # NoKey
                     THEN uptime ELSE press_time
    /\ main_menu' = sw.main_menu
    /\ sub_menu' = sw.sub_menu
    /\ last_touch_x' = sw.last_touch_x
    /\ last_touch_y' = sw.last_touch_y
    /\ swiped' = sw.fired
    /\ prev_main' = main_menu
    /\ prev_sub' = sub_menu
    /\ tied' = is_tie(td)
    /\ hold' = next_hold(main_menu, td)
    /\ IF sw.main_menu # last_main \/ sw.sub_menu # last_sub
       THEN last_main' = sw.main_menu /\ last_sub' = sw.sub_menu
       ELSE UNCHANGED << last_main, last_sub >>
    /\ uptime' = uptime + sw.slept + d
    /\ UNCHANGED << touch_enabled, dict_order, ticks_base >>

\* the iteration whose redraw test looks at main_menu only
Iteration_redraw_main_only(td, d) ==
    LET kb == IF main_menu = 3 /\ td.points # 0
              THEN handle_keyboard_touch(td.x, td.y, ticks_ms(uptime))
              ELSE kb_globals @@ [ret |-> "NotCalled"]
        sw == detect_swipe(td)
    IN
    /\ Len(kb.search_text) <= MaxLen
    /\ uptime + sw.slept + d <= MaxUptime
    /\ touch_data' = td
    /\ search_text' = kb.search_text
    /\ keyboard_mode' = kb.keyboard_mode
    /\ multitap_key' = kb.multitap_key
    /\ multitap_count' = kb.multitap_count
    /\ multitap_time' = kb.multitap_time
    /\ kb_result' = kb.ret
    /\ press_time' = IF kb.ret = "True" /\ kb.multitap_key # NoKey
                     THEN uptime ELSE press_time
    /\ main_menu' = sw.main_menu
    /\ sub_menu' = sw.sub_menu
    /\ last_touch_x' = sw.last_touch_x
    /\ last_touch_y' = sw.last_touch_y
    /\ swiped' = sw.fired
    /\ prev_main' = main_menu
    /\ prev_sub' = sub_menu
    /\ tied' = is_tie(td)
    /\ hold' = next_hold(main_menu, td)
    /\ IF sw.main_menu # last_main
       THEN last_main' = sw.main_menu /\ last_sub' = sw.sub_menu
       ELSE UNCHANGED << last_main, last_sub >>
    /\ uptime' = uptime + sw.slept + d
    /\ UNCHANGED << touch_enabled, dict_order, ticks_base >>

\* the iteration that takes only the first sample of a contact as a key tap
Iteration_first_sample_only(td, d) ==
    LET kb == IF main_menu = 3 /\ td.points # 0 /\ last_touch_x = None
              THEN handle_keyboard_touch(td.x, td.y, ticks_ms(uptime))
              ELSE kb_globals @@ [ret |-> "NotCalled"]
        sw == detect_swipe(td)
    IN
    /\ Len(kb.search_text) <= MaxLen
    /\ uptime + sw.slept + d <= MaxUptime
    /\ touch_data' = td
    /\ search_text' = kb.search_text
    /\ keyboard_mode' = kb.keyboard_mode
    /\ multitap_key' = kb.multitap_key
    /\ multitap_count' = kb.multitap_count
    /\ multitap_time' = kb.multitap_time
    /\ kb_result' = kb.ret
    /\ press_time' = IF kb.ret = "True" /\ kb.multitap_key # NoKey
                     THEN uptime ELSE press_time
    /\ main_menu' = sw.main_menu
    /\ sub_menu' = sw.sub_menu
    /\ last_touch_x' = sw.last_touch_x
    /\ last_touch_y' = sw.last_touch_y
    /\ swiped' = sw.fired
    /\ prev_main' = main_menu
    /\ prev_sub' = sub_menu
    /\ tied' = is_tie(td)
    /\ hold' = next_hold(main_menu, td)
    /\ IF sw.main_menu # last_main \/ sw.sub_menu # last_sub
       THEN last_main' = sw.main_menu /\ last_sub' = sw.sub_menu
       ELSE UNCHANGED << last_main, last_sub >>
    /\ uptime' = uptime + sw.slept + d
    /\ UNCHANGED << touch_enabled, dict_order, ticks_base >>

\* one iteration of the main loop that reads the sample td and takes d ms
\* besides the swipe cooldown
Iteration(td, d) ==
    LET kb == IF main_menu = 3 /\ td.points # 0
              THEN handle_keyboard_touch(td.x, td.y, ticks_ms(uptime))
              ELSE kb_globals @@ [ret |-> "NotCalled"]
        sw == detect_swipe(td)
    IN
    /\ Len(kb.search_text) <= MaxLen
    /\ uptime + sw.slept + d <= MaxUptime
    /\ touch_data' = td
    /\ search_text' = kb.search_text
    /\ keyboard_mode' = kb.keyboard_mode
    /\ multitap_key' = kb.multitap_key
    /\ multitap_count' = kb.multitap_count
    /\ multitap_time' = kb.multitap_time
    /\ kb_result' = kb.ret
    /\ press_time' = IF kb.ret = "True" /\ kb.multitap_key # NoKey
                     THEN uptime ELSE press_time
    /\ main_menu' = sw.main_menu
    /\ sub_menu' = sw.sub_menu
    /\ last_touch_x' = sw.last_touch_x
    /\ last_touch_y' = sw.last_touch_y
    /\ swiped' = sw.fired
    /\ prev_main' = main_menu
    /\ prev_sub' = sub_menu
    /\ tied' = is_tie(td)
    /\ hold' = next_hold(main_menu, td)
    /\ IF sw.main_menu # last_main \/ sw.sub_menu # last_sub
       THEN last_main' = sw.main_menu /\ last_sub' = sw.sub_menu
       ELSE UNCHANGED << last_main, last_sub >>
    /\ uptime' = uptime + sw.slept + d
    /\ UNCHANGED << touch_enabled, dict_order, ticks_base >>

\* an iteration when the touch controller could not be constructed: only the
\* redraw bookkeeping runs
IterationNoTouch(d) ==
    /\ uptime + d <= MaxUptime
    /\ IF main_menu # last_main \/ sub_menu # last_sub
       THEN last_main' = main_menu /\ last_sub' = sub_menu
       ELSE UNCHANGED << last_main, last_sub >>
    /\ uptime' = uptime + d
    /\ prev_main' = main_menu
    /\ prev_sub' = sub_menu
    /\ UNCHANGED << touch_enabled, dict_order, ticks_base, main_menu, sub_menu,
                    last_touch_x, last_touch_y, search_text, keyboard_mode,
                    multitap_key, multitap_count, multitap_time, touch_data,
                    kb_result, swiped, press_time, tied, hold >>

MainLoop ==
    \E d \in Delays :
        IF touch_enabled
        THEN \E td \in get_touch : Iteration(td, d)
        ELSE IterationNoTouch(d)

Init ==
    /\ touch_enabled \in BOOLEAN
    /\ dict_order \in DictOrders
    /\ ticks_base \in TickBases
    /\ uptime = 0
    /\ main_menu = 0
    /\ sub_menu = 0
    /\ last_touch_x = None
    /\ last_touch_y = None
    /\ search_text = << >>
    /\ keyboard_mode = "abc"
    /\ multitap_key = NoKey
    /\ multitap_count = 0
    /\ multitap_time = 0
    /\ last_main = -1
    /\ last_sub = -1
    /\ touch_data = NoTouch
    /\ kb_result = "NotCalled"
    /\ swiped = FALSE
    /\ prev_main = 0
    /\ prev_sub = 0
    /\ press_time = None
    /\ tied = FALSE
    /\ hold = NoHold

Next == MainLoop

Spec == Init /\ [][Next]_vars

\* =================================================================== claims
\* what the claims are stated with, written from the specification
Abs(v) == IF v < 0 THEN -v ELSE v

\* maxSub: Time 1, Weather 2, Crypto 1, Search 1, Settings 1
maxSub == <<1, 2, 1, 1, 1>>

\* the iteration being taken reads a contact sample while an anchor is set
SampleOnAnchor ==
    touch_enabled /\ touch_data'.points # 0
    /\ last_touch_x # None /\ last_touch_y # None

dx == touch_data'.x - last_touch_x
dy == touch_data'.y - last_touch_y

VerticalSwipe == SampleOnAnchor /\ Abs(dy) > 50 /\ Abs(dy) > Abs(dx)
HorizontalSwipe == SampleOnAnchor /\ Abs(dx) > 40 /\ Abs(dx) > Abs(dy)

AnchorCleared == last_touch_x = None /\ last_touch_y = None

\* C1: in every reachable state 0 <= mainIndex < 5 and
\* 0 <= subIndex < maxSub(mainIndex).
C1_MenuPositionInRange ==
    /\ main_menu \in 0..4
    /\ sub_menu \in 0..(maxSub[main_menu + 1] - 1)

\* C1 witness: samples have navigated to the second Weather screen
C1_Witness == touch_data.points # 0 /\ main_menu = 1 /\ sub_menu = 1

\* C2: a sample with |dy| > 50 and |dy| > |dx| from the anchor moves
\* mainIndex one step modulo 5 (down: +1, up: -1), sets subIndex to 0 and
\* clears the anchor.
C2_VerticalSwipeStepsMain ==
    [][ VerticalSwipe =>
          /\ main_menu' = IF dy > 0 THEN (main_menu + 1) % 5
                          ELSE (main_menu + 4) % 5
          /\ sub_menu' = 0
          /\ AnchorCleared' ]_vars

\* C2 witness: an upward swipe on the Time screen has wrapped 0 to 4
C2_Witness ==
    /\ swiped /\ AnchorCleared
    /\ prev_main = 0 /\ main_menu = 4 /\ sub_menu = 0

\* C3: the iteration that classifies a swipe takes at least 300 ms before
\* the next sample is read, so two classifications, and two changes of the
\* menu position, are at least 300 ms apart; it starts with an anchor and
\* ends without one, so the iteration after a swipe never classifies one.
C3_SwipeCooldown ==
    [][ /\ swiped' => /\ uptime' - uptime >= 300
                      /\ last_touch_x # None /\ last_touch_y # None
                      /\ AnchorCleared'
        /\ swiped => ~swiped'
        /\ (main_menu' # main_menu \/ sub_menu' # sub_menu) => swiped'
        /\ uptime' >= uptime ]_vars

\* C3 witness: a second swipe has been classified after an earlier one
C3_Witness == swiped /\ uptime >= 800 /\ main_menu = 3

\* C4: on the Weather screen every qualifying horizontal swipe turns
\* subIndex into (subIndex +/- 1) mod 2 (left: +1, right: -1) and leaves
\* mainIndex at 1; from 0 a left swipe gives 1, a second gives 0 again.
C4_WeatherSubCycles ==
    [][ (HorizontalSwipe /\ main_menu = 1) =>
          /\ main_menu' = 1
          /\ sub_menu' = IF dx < 0 THEN (sub_menu + 1) % 2
                         ELSE (sub_menu - 1) % 2
          /\ (sub_menu = 0 => sub_menu' = 1)
          /\ (sub_menu = 1 => sub_menu' = 0) ]_vars

\* C4 witness: a left swipe has wrapped the Weather submenu from 1 back to 0
C4_Witness ==
    /\ swiped /\ prev_main = 1 /\ main_menu = 1
    /\ prev_sub = 1 /\ sub_menu = 0 /\ touch_data.x = 45

\* C5: on a menu without submenus a qualifying horizontal swipe leaves the
\* menu position unchanged, and still clears the anchor and takes the 300 ms
\* cooldown.
C5_HorizontalSwipeNoSubmenu ==
    [][ (HorizontalSwipe /\ main_menu \in {0, 2, 3, 4}) =>
          /\ main_menu' = main_menu
          /\ sub_menu' = sub_menu /\ sub_menu' = 0
          /\ AnchorCleared'
          /\ swiped'
          /\ uptime' - uptime >= 300 ]_vars

\* C5 witness: a swipe was classified on the Crypto screen and the position
\* is what it was
C5_Witness ==
    /\ swiped /\ prev_main = 2 /\ main_menu = 2 /\ sub_menu = 0
    /\ AnchorCleared

\* ------------------------------------------------------ text entry claims
\* the row and column bands of the keyboard grid
RowBand(y) ==
    IF y \in 50..80 THEN 0 ELSE IF y \in 90..120 THEN 1
    ELSE IF y \in 130..160 THEN 2 ELSE IF y \in 170..200 THEN 3 ELSE -1

ColBand(x) ==
    IF x \in 20..80 THEN 0 ELSE IF x \in 90..150 THEN 1
    ELSE IF x \in 160..220 THEN 2 ELSE -1

\* the grid cell of a sample, -1 when it lies in none
Cell(td) ==
    IF RowBand(td.y) >= 0 /\ ColBand(td.x) >= 0
    THEN RowBand(td.y) * 3 + ColBand(td.x) ELSE -1

CharCells == 0..8
BackspaceCell == 9
ModeToggleCell == 10

\* the iteration being taken starts on the search screen and reads a contact
\* sample: the sample is a tap for the text entry
Tap == touch_enabled /\ main_menu = 3 /\ touch_data'.points # 0

TapCell == Cell(touch_data')

\* the cluster of the tapped character cell and its candidates in the
\* current mode
TapKey == key_list(keyboard_mode)[TapCell + 1]
TapCandidates == keys(keyboard_mode)[TapKey]

\* real time since the previous tap on a character cell
SincePress == uptime - press_time

\* C6: a tap on the active character cell less than 1000 ms after the
\* previous tap advances cycleIndex by one modulo the number of candidates
\* and replaces the last character of the buffer by that candidate; the
\* buffer keeps its length and its other characters.
C6_MultitapCycles ==
    [][ (Tap /\ TapCell \in CharCells /\ TapKey = multitap_key
             /\ press_time # None /\ SincePress < 1000) =>
          /\ multitap_count' = (multitap_count + 1) % Len(TapCandidates)
          /\ Len(search_text) > 0
          /\ search_text' = [search_text EXCEPT ![Len(search_text)] =
                                TapCandidates[multitap_count' + 1]]
          /\ multitap_key' = multitap_key
          /\ kb_result' = "True" ]_vars

\* C6 witness: cluster "def" tapped twice shows "e"
C6_Witness ==
    /\ prev_main = 3 /\ kb_result = "True"
    /\ multitap_key = "def" /\ multitap_count = 1
    /\ search_text = <<"e">>

\* C7: a tap on a character cell other than the active one, or 1000 ms or
\* more after the previous tap, starts a new character: activeCell is this
\* cell, cycleIndex 0, candidates[0] appended to the unchanged buffer,
\* lastPressTime set to now.
C7_NewCharacter ==
    [][ (Tap /\ TapCell \in CharCells
             /\ (TapKey # multitap_key \/ SincePress >= 1000)) =>
          /\ multitap_key' = TapKey
          /\ multitap_count' = 0
          /\ search_text' = Append(search_text, TapCandidates[1])
          /\ multitap_time' = ticks_ms(uptime)
          /\ kb_result' = "True" ]_vars

\* C8: a tap on Backspace removes the last character of a non-empty buffer,
\* leaves an empty buffer empty, returns true and resets the multitap state;
\* with the multitap state reset, a tap on any character cell appends a
\* fresh first candidate.
C8_Backspace ==
    [][ /\ (Tap /\ TapCell = BackspaceCell) =>
              /\ search_text' = IF search_text = << >> THEN << >>
                                ELSE SubSeq(search_text, 1, Len(search_text) - 1)
              /\ kb_result' = "True"
              /\ multitap_key' = NoKey
              /\ keyboard_mode' = keyboard_mode
        /\ (Tap /\ TapCell \in CharCells /\ multitap_key = NoKey) =>
              /\ search_text' = Append(search_text, TapCandidates[1])
              /\ multitap_count' = 0 ]_vars

\* C8 witness: Backspace was tapped less than 1000 ms after a character tap
\* and the buffer is empty
C8_Witness ==
    /\ prev_main = 3 /\ Cell(touch_data) = BackspaceCell /\ kb_result = "True"
    /\ press_time # None /\ uptime - press_time < 1000
    /\ search_text = << >> /\ multitap_key = NoKey

\* the cyclic successor of a keyboard mode
ModeAfter(mode) ==
    CASE mode = "abc" -> "ABC" [] mode = "ABC" -> "123" [] mode = "123" -> "abc"

\* C9: a tap on ModeToggle moves the mode Lower -> Upper -> Numeric ->
\* Lower, resets the multitap state, returns true and leaves the buffer
\* unchanged; three toggles restore the mode.
C9_ModeToggle ==
    [][ (Tap /\ TapCell = ModeToggleCell) =>
          /\ keyboard_mode' = ModeAfter(keyboard_mode)
          /\ ModeAfter(ModeAfter(keyboard_mode')) = keyboard_mode
          /\ multitap_key' = NoKey
          /\ kb_result' = "True"
          /\ search_text' = search_text ]_vars

\* C9 witness: a toggle has just brought the mode back to Lower, with text
\* in the buffer
C9_Witness ==
    /\ prev_main = 3 /\ Cell(touch_data) = ModeToggleCell /\ kb_result = "True"
    /\ keyboard_mode = "abc" /\ multitap_key = NoKey /\ search_text # << >>

\* C10: a tap outside all row bands or outside all column bands returns
\* false and changes neither the buffer, the mode nor the multitap state.
C10_TapOutsideIgnored ==
    [][ (Tap /\ (RowBand(touch_data'.y) = -1 \/ ColBand(touch_data'.x) = -1)) =>
          /\ kb_result' = "False"
          /\ UNCHANGED << search_text, keyboard_mode, multitap_key,
                          multitap_count, multitap_time, press_time >> ]_vars

\* C10 witness: a tap in the gap between two columns was ignored while a
\* multitap cycle was in progress
C10_Witness ==
    /\ prev_main = 3 /\ kb_result = "False" /\ touch_data.x = 85
    /\ multitap_key # NoKey /\ multitap_count = 1

\* ------------------------------------------------- claims C11 and following
\* C11: a 'no contact' sample leaves the anchor cleared and the menu position
\* alone (a second one changes nothing further); the first contact sample
\* after the anchor was cleared only records the anchor and changes neither
\* mainIndex nor subIndex.
C11_LiftStartsFreshGesture ==
    [][ /\ (touch_enabled /\ touch_data'.points = 0) =>
              /\ AnchorCleared'
              /\ main_menu' = main_menu /\ sub_menu' = sub_menu
              /\ ~swiped'
        /\ (touch_enabled /\ touch_data'.points # 0 /\ AnchorCleared) =>
              /\ last_touch_x' = touch_data'.x
              /\ last_touch_y' = touch_data'.y
              /\ main_menu' = main_menu /\ sub_menu' = sub_menu
              /\ ~swiped' ]_vars

\* C11 witness: the upward swipe that ended near the top was followed, in the
\* third iteration, by a sample 120 below it, which only became the anchor
C11_Witness ==
    /\ uptime = 600 /\ main_menu = 4 /\ prev_main = 4 /\ ~swiped
    /\ touch_data.y = 185 /\ last_touch_x = touch_data.x /\ last_touch_y = 185

\* a sample on an anchor that passes neither swipe test; a tie is such a
\* sample
NoSwipe == SampleOnAnchor /\ ~VerticalSwipe /\ ~HorizontalSwipe
Tie == SampleOnAnchor /\ Abs(dx) = Abs(dy)

\* what C12 says of a sample that fires nothing
DragContinues ==
    /\ main_menu' = main_menu /\ sub_menu' = sub_menu
    /\ last_touch_x' = touch_data'.x /\ last_touch_y' = touch_data'.y
    /\ ~swiped'

\* C12 as stated: at most one of mainIndex and subIndex changes in an
\* iteration; a tie, or a sample passing neither test, changes nothing and
\* moves the anchor to the sample.
C12_AtMostOneIndexChanges ==
    [][ /\ ~(main_menu' # main_menu /\ sub_menu' # sub_menu)
        /\ (Tie \/ NoSwipe) => DragContinues ]_vars

\* C12 amended: at most one of the two swipe branches runs in an iteration:
\* mainIndex changes only by a vertical swipe, which also resets subIndex to
\* 0; subIndex changes with mainIndex unchanged only by a horizontal swipe;
\* a tie, or a sample passing neither test, changes nothing and moves the
\* anchor to the sample.
C12_OneSwipeBranchPerIteration ==
    [][ /\ ~(VerticalSwipe /\ HorizontalSwipe)
        /\ main_menu' # main_menu => (VerticalSwipe /\ sub_menu' = 0)
        /\ (sub_menu' # sub_menu /\ main_menu' = main_menu) =>
              (HorizontalSwipe /\ ~VerticalSwipe)
        /\ (Tie \/ NoSwipe) => DragContinues ]_vars

\* C12 witness: a sample 120 away from the anchor on both axes fired nothing
\* and became the anchor
C12_Witness ==
    /\ tied /\ ~swiped /\ touch_data.points # 0
    /\ last_touch_x = touch_data.x /\ last_touch_y = touch_data.y
    /\ main_menu = prev_main /\ sub_menu = prev_sub

\* C13: an iteration that starts on another screen than Search, or reads no
\* contact, does not call the text entry: buffer, mode and multitap state are
\* unchanged; so buffer and mode survive leaving the Search screen and
\* coming back.
C13_TextEntryOnlyOnSearchScreen ==
    [][ (main_menu # 3 \/ touch_data'.points = 0) =>
          /\ kb_result' = "NotCalled"
          /\ UNCHANGED << search_text, keyboard_mode, multitap_key,
                          multitap_count, multitap_time >> ]_vars

\* C13 witness: back on the Search screen by a swipe from Settings, with the
\* text and the mode entered before leaving
C13_Witness ==
    /\ swiped /\ prev_main = 4 /\ main_menu = 3 /\ kb_result = "NotCalled"
    /\ search_text # << >> /\ keyboard_mode = "ABC"

\* the key action of a tap in cell TapCell has been applied
KeyActionApplied ==
    /\ kb_result' = "True"
    /\ TapCell = BackspaceCell =>
          search_text' = SubSeq(search_text, 1, Len(search_text) - 1)
    /\ TapCell = ModeToggleCell => keyboard_mode' = ModeAfter(keyboard_mode)
    /\ TapCell \in {BackspaceCell, ModeToggleCell, 11} => multitap_key' = NoKey
    /\ TapCell \in CharCells =>
          /\ multitap_key' = TapKey
          /\ search_text' # << >>
          /\ search_text'[Len(search_text')] =
                TapCandidates[multitap_count' + 1]

\* C14: on the Search screen the key handler runs before the gesture
\* classifier on the same sample: a sample in a key cell that completes a
\* vertical swipe applies its key action and leaves the Search screen in
\* that iteration; the sample whose swipe arrives on the Search screen is
\* not a key tap in that iteration.
C14_KeyThenGesture ==
    [][ /\ (Tap /\ TapCell >= 0 /\ VerticalSwipe) =>
              /\ KeyActionApplied
              /\ main_menu' \in {2, 4} /\ swiped'
        /\ (Tap /\ TapCell >= 0) => KeyActionApplied
        /\ (main_menu # 3 /\ main_menu' = 3) =>
              /\ kb_result' = "NotCalled"
              /\ UNCHANGED << search_text, keyboard_mode, multitap_key,
                              multitap_count, multitap_time >> ]_vars

\* C14 witness: one sample has toggled the mode and swiped away from Search
C14_Witness ==
    /\ prev_main = 3 /\ main_menu \in {2, 4} /\ swiped
    /\ kb_result = "True" /\ Cell(touch_data) = ModeToggleCell
    /\ keyboard_mode = "ABC"

\* C15: at the end of every iteration the menu position last drawn is the
\* current one: an iteration that changes mainIndex or subIndex redraws.
C15_RedrawFollowsNavigation ==
    uptime > 0 => (last_main = main_menu /\ last_sub = sub_menu)

\* C15 witness: the second Weather screen has been reached and drawn
C15_Witness ==
    /\ swiped /\ main_menu = 1 /\ sub_menu = 1 /\ prev_sub = 0
    /\ last_main = 1 /\ last_sub = 1

\* C16: every Numeric cluster has one candidate, so a tap on the active
\* cell within 1000 ms cycles with length 1: cycleIndex stays 0 and the
\* buffer is unchanged; the same digit is entered again only when the cell
\* is not the active one or 1000 ms have passed.
C16_NumericRepeatKeepsBuffer ==
    [][ /\ \A k \in DOMAIN multitap_numbers : Len(multitap_numbers[k]) = 1
        /\ (Tap /\ keyboard_mode = "123" /\ TapCell \in CharCells
                /\ TapKey = multitap_key /\ SincePress < 1000) =>
              /\ multitap_count = 0 /\ multitap_count' = 0
              /\ search_text' = search_text
              /\ kb_result' = "True"
        /\ (Tap /\ keyboard_mode = "123" /\ TapCell \in CharCells
                /\ search_text # << >>
                /\ search_text' =
                     Append(search_text, search_text[Len(search_text)])) =>
              (multitap_key # TapKey \/ SincePress >= 1000) ]_vars

\* C16 witness: a digit cell tapped in two iterations in a row, one digit in
\* the buffer
C16_Witness ==
    /\ prev_main = 3 /\ keyboard_mode = "123" /\ kb_result = "True"
    /\ hold.cell \in CharCells /\ hold.n = 2 /\ hold.len = 0
    /\ Len(search_text) = 1 /\ multitap_count = 0

\* C17: in the current mode every cluster of the key table can be entered by
\* a tap on some grid cell, and cells 9, 10 and 11 act as Backspace,
\* ModeToggle and Submit.
C17_EveryClusterEnterable ==
    (touch_enabled /\ main_menu = 3) =>
        /\ \A k \in DOMAIN keys(keyboard_mode) :
              \E c \in 0..11 :
                  /\ TapOn(c).ret = "True"
                  /\ TapOn(c).multitap_key = k
                  /\ \E i \in 1..Len(keys(keyboard_mode)[k]) :
                        TapOn(c).search_text[Len(TapOn(c).search_text)] =
                            keys(keyboard_mode)[k][i]
        /\ TapOn(9).search_text = SubSeq(search_text, 1, Len(search_text) - 1)
        /\ TapOn(10).keyboard_mode = ModeAfter(keyboard_mode)
        /\ TapOn(11).multitap_key = NoKey
        /\ TapOn(11).search_text = search_text

\* C18: whenever activeCell is set it is a character cell of the current
\* mode's table and 0 <= cycleIndex < len(candidates(activeCell)).
C18_CycleIndexInRange ==
    multitap_key # NoKey =>
        \E c \in CharCells :
            /\ key_list(keyboard_mode)[c + 1] = multitap_key
            /\ multitap_count >= 0
            /\ multitap_count < Len(keys(keyboard_mode)[multitap_key])

\* C18 witness: after a mode toggle a cluster has been cycled to its third
\* candidate
C18_Witness ==
    /\ keyboard_mode = "ABC" /\ multitap_key # NoKey /\ multitap_count = 2
    /\ kb_result = "True"

\* C19: whenever activeCell is set the buffer is non-empty and ends with
\* candidates(activeCell)[cycleIndex] of the current mode.
C19_LastCharIsActiveCandidate ==
    multitap_key # NoKey =>
        /\ multitap_key \in DOMAIN keys(keyboard_mode)
        /\ search_text # << >>
        /\ search_text[Len(search_text)] =
              keys(keyboard_mode)[multitap_key][multitap_count + 1]

\* C19 witness: a cycle step has replaced the second character of the buffer
C19_Witness ==
    /\ prev_main = 3 /\ kb_result = "True" /\ multitap_key # NoKey
    /\ Len(search_text) = 2 /\ multitap_count = 1 /\ hold.n = 2

\* the candidates of the character cell of the hold, in the current mode
HoldCandidates == keys(keyboard_mode)[key_list(keyboard_mode)[hold.cell + 1]]

Min(a, b) == IF a < b THEN a ELSE b

\* after n iterations on one character cell the buffer has one character
\* more than before, candidates[(n - 1) mod len]
HeldCharacter ==
    /\ Len(search_text) = hold.len + 1
    /\ multitap_count = (hold.n - 1) % Len(HoldCandidates)
    /\ search_text[Len(search_text)] =
          HoldCandidates[((hold.n - 1) % Len(HoldCandidates)) + 1]

\* after n iterations on Backspace min(n, length) characters are gone
HeldBackspace ==
    hold.cell = BackspaceCell =>
        Len(search_text) = hold.len - Min(hold.n, hold.len)

\* C20 as stated: every iteration on the Search screen whose sample lies in
\* a cell applies the key action, no release needed; a contact held on a
\* character cell for n iterations, each less than 1000 ms after the one
\* before, leaves one new character, candidates[(n-1) mod len]; held on
\* Backspace for n iterations it removes min(n, length) characters.
C20_HeldContactRepeats ==
    /\ hold.n >= 1 => kb_result = "True"
    /\ (hold.n >= 1 /\ hold.cell \in CharCells) => HeldCharacter
    /\ HeldBackspace

\* C20 amended: the same, for a contact on a character cell that was not the
\* active multitap cell when the contact arrived.
C20_HeldContactRepeatsFromNewCell ==
    /\ hold.n >= 1 => kb_result = "True"
    /\ (hold.n >= 1 /\ hold.cell \in CharCells /\ hold.fresh) => HeldCharacter
    /\ HeldBackspace

\* C20 witness: four iterations on one cell of three candidates show the
\* first candidate again
C20_Witness ==
    /\ hold.cell \in CharCells /\ hold.fresh /\ hold.n = 4
    /\ Len(HoldCandidates) = 3 /\ multitap_count = 0
    /\ Len(search_text) = hold.len + 1

\* the tick counter wrapped around between the previous tap on a character
\* cell and the iteration being taken: the reading now is the smaller one
WrappedSincePress == ticks_ms(uptime) < multitap_time

\* C21: when the millisecond tick counter wraps around between two taps on
\* the same character cell, the 1000 ms window is still decided by the real
\* time between them: 1000 ms or more and the second tap starts a new
\* character, less than 1000 ms and it cycles, although the counter value of
\* the second tap is the smaller one.
C21_WindowAcrossWrap ==
    [][ (Tap /\ TapCell \in CharCells /\ TapKey = multitap_key
             /\ press_time # None /\ WrappedSincePress) =>
          IF SincePress >= 1000
          THEN /\ multitap_count' = 0
               /\ search_text' = Append(search_text, TapCandidates[1])
               /\ multitap_key' = TapKey
          ELSE /\ multitap_count' = (multitap_count + 1) % Len(TapCandidates)
               /\ Len(search_text') = Len(search_text)
               /\ search_text'[Len(search_text')] =
                     TapCandidates[multitap_count' + 1]
               /\ multitap_key' = TapKey ]_vars

====
